---- MODULE Spec2Model ----
(***************************************************************************)
(* Model of toil_lib.pipelineWrapperBuilder.PipelineWrapperBuilder: the    *)
(* wrapper that resolves the shared host mount of the running container,   *)
(* writes the pipeline's config file, runs the Toil pipeline as a child    *)
(* process and cleans up.                                                  *)
(*                                                                         *)
(* A Python str is a sequence of atoms (pieces of text), so that           *)
(* concatenation, os.path.join and str.format are computed, not assumed.   *)
(* A text (the config) is a sequence of lines, each an indentation width   *)
(* and a str.                                                              *)
(***************************************************************************)
EXTENDS Integers, Sequences, FiniteSets, TLC

VARIABLES
    pc,                \* position of the caller / of run()
    _name, _desc, _config, _no_clean, _resume,   \* fields set by __init__
    _mount, _workdir,  \* fields set during run()
    args,              \* the argparse namespace, as the dict vars(args)
    pipeline_command,  \* run()'s second argument
    command,           \* the local variable `command` of run()
    disk,              \* the working directory <mount>/Toil-<name> on disk
    rootOwned,         \* files owned by root exist under the mount
    events,            \* subprocesses spawned and cleanup steps taken, in order
    stderr,            \* what run() printed to sys.stderr
    error,             \* the exception that left run(), "none" if none
    pending,           \* exception in flight while the finally block runs
    engineExit,        \* outcome of the pipeline child process
    spawned,           \* the argument vector the child process was started with
    ctor,              \* the arguments __init__ was called with
    disk0,             \* the working directory as it was when run() was called
    mounts             \* the 'Mounts' list of `docker inspect` (_prepare_mount alone)

vars == <<pc, _name, _desc, _config, _no_clean, _resume, _mount, _workdir, args,
          pipeline_command, command, disk, rootOwned, events, stderr, error,
          pending, engineExit, spawned, ctor, disk0, mounts>>

-----------------------------------------------------------------------------
(* Bounds and input sets *)

MaxMounts == 3

SOCK == "/var/run/docker.sock"
ALT_SOCK == "/run/user/docker.sock"
Paths == {SOCK, ALT_SOCK, "/data", "/scratch"}
Mount == [Source : Paths, Destination : Paths]
MountLists == UNION {[1..n -> Mount] : n \in 0..MaxMounts}

Names == {"toil-rnaseq", "toil-exome"}
Desc == <<"Runs the pipeline in a container">>

Line(i, b) == [indent |-> i, body |-> b]
Templates ==
    { <<Line(0, <<"key: value">>)>>,
      <<Line(0, <<"output-dir: ", "{output_dir}">>)>>,
      <<Line(4, <<"output-dir: ", "{output_dir}">>), Line(4, <<"pattern: ", "{{x}}">>)>>,
      <<Line(2, <<"ci:">>), Line(4, <<"key: value">>)>> }

PipelineCommands ==
    { <<>>, <<<<"--sample">>>>, <<<<"--sample">>, <<"s3://bucket/a.tar">>>> }

Unset == <<"<unset>">>
NoFile == <<>>
OldConfig == <<Line(0, <<"stale: config">>)>>
AbsentDir == [exists |-> FALSE, hasConfig |-> FALSE, config |-> NoFile]
DiskStates ==
    { AbsentDir,
      [exists |-> TRUE, hasConfig |-> FALSE, config |-> NoFile],
      [exists |-> TRUE, hasConfig |-> TRUE, config |-> OldConfig] }

-----------------------------------------------------------------------------
(* Helpers for Python values *)

MapSource(s) == [i \in 1..Len(s) |-> s[i].Source]

RECURSIVE Concat(_)
Concat(ss) == IF ss = <<>> THEN <<>> ELSE Head(ss) \o Concat(Tail(ss))

MinOf(S) == CHOOSE m \in S : \A x \in S : m <= x

\* 'docker.sock' in p, for the paths of Paths
HasDockerSock(p) == p \in {SOCK, ALT_SOCK}

\* os.path.join(a, b) for a relative b and an a without a trailing slash
Join(a, b) == a \o <<"/">> \o b

-----------------------------------------------------------------------------
(* _prepare_mount *)

Raise(e) == [err |-> e, mount |-> Unset]
Return(p) == [err |-> "none", mount |-> <<p>>]

Mirrored(x) == x.Source = x.Destination

\* sock_mnt = [... for x in mounts if 'docker.sock' in x['Source']]
sock_mnt(ms) == SelectSeq(ms, LAMBDA x : HasDockerSock(x.Source))

\* work_mount_of_two without its require(all(Source == Destination))
work_mount_of_two_Unchecked(ms) ==
    LET work_mount == MapSource(SelectSeq(ms, LAMBDA x : ~HasDockerSock(x.Source)))
    IN  Return(work_mount[1])

\* the branch for exactly two mount points
work_mount_of_two(ms) ==
    IF ~ \A i \in 1..Len(ms) : Mirrored(ms[i])
    THEN Raise("require:src-dst")
    ELSE LET work_mount == MapSource(SelectSeq(ms, LAMBDA x : ~HasDockerSock(x.Source)))
         IN  Return(work_mount[1])

\* the branch for any other number of mount points
work_mount_of_mirrors(ms) ==
    LET mirror_mounts == MapSource(SelectSeq(ms, Mirrored))
        work_mount == SelectSeq(mirror_mounts, LAMBDA p : ~HasDockerSock(p))
    IN  IF Len(work_mount) # 1
        THEN Raise("require:mirror-count")
        ELSE Return(work_mount[1])

\* psOk, inspectOk: exit status 0 of `docker ps` and of `docker inspect`;
\* ms: the 'Mounts' list of the inspected container
_prepare_mount(psOk, inspectOk, ms) ==
    IF ~psOk THEN Raise("RuntimeError:no-container")
    ELSE IF ~inspectOk THEN Raise("CalledProcessError:docker-inspect")
    ELSE IF Len(sock_mnt(ms)) # 1 THEN Raise("require:socket-mount")
    ELSE IF Len(ms) = 2 THEN work_mount_of_two(ms)
    ELSE work_mount_of_mirrors(ms)

MountErrors ==
    { "RuntimeError:no-container", "CalledProcessError:docker-inspect",
      "require:socket-mount", "require:src-dst", "require:mirror-count" }

\* every way _prepare_mount can end, over the containers of MountLists
PrepareMountOutcomes ==
    { _prepare_mount(p, i, ms) : p \in BOOLEAN, i \in BOOLEAN, ms \in MountLists }

-----------------------------------------------------------------------------
(* get_args, the config template, the command line, _create_workdir *)

\* the dests of the options the parser of get_args accepts
get_args(no_clean, resume) ==
    (IF no_clean THEN {"no_clean"} ELSE {}) \cup (IF resume THEN {"resume"} ELSE {})

\* self._resume and args.resume / self._no_clean and args.no_clean
ResumeRequested(resume, a) == IF resume THEN a["resume"] ELSE FALSE
NoCleanRequested(no_clean, a) == IF no_clean THEN a["no_clean"] ELSE FALSE

\* str.format(**args_dict) on one piece of the template
FormatAtom(a, d) ==
    IF a = "{output_dir}" THEN d["output_dir"]
    ELSE IF a = "{{x}}" THEN <<"{x}">>
    ELSE <<a>>

Format(text, d) ==
    [i \in 1..Len(text) |->
        Line(text[i].indent,
             Concat([j \in 1..Len(text[i].body) |-> FormatAtom(text[i].body[j], d)]))]

\* textwrap.dedent: strips the whitespace common to the start of all lines
Dedent(text) ==
    LET margin == MinOf({text[i].indent : i \in 1..Len(text)})
    IN  [i \in 1..Len(text) |-> Line(text[i].indent - margin, text[i].body)]

\* _make_command_prefix with the config and work directory paths swapped
_make_command_prefix_Swapped(name, jobstore_path, config_path, workdir_path) ==
    << <<name>>, <<"run">>, jobstore_path,
       <<"--config">>, workdir_path,
       <<"--workDir">>, config_path,
       <<"--retryCount">>, <<"1">> >>

_make_command_prefix(name, jobstore_path, config_path, workdir_path) ==
    << <<name>>, <<"run">>, jobstore_path,
       <<"--config">>, config_path,
       <<"--workDir">>, workdir_path,
       <<"--retryCount">>, <<"1">> >>

\* lines 48-53 of run: the command line of the child process
BuildCommand(name, workdir, pipeline, resume) ==
    LET config_path == Join(workdir, <<"config">>)
        cmd == _make_command_prefix(name, Join(workdir, <<"jobStore">>),
                                    config_path, workdir) \o pipeline
    IN  IF resume THEN Append(cmd, <<"--restart">>) ELSE cmd

\* _create_workdir that refuses an existing directory even when resuming
_create_workdir_IgnoresResume(d, resume) ==
    IF d.exists
    THEN [err |-> "UserError:workdir-exists", disk |-> d]
    ELSE [err |-> "none", disk |-> [d EXCEPT !.exists = TRUE]]

\* _create_workdir that accepts an existing directory without resume
_create_workdir_ExistOk(d, resume) ==
    [err |-> "none", disk |-> [d EXCEPT !.exists = TRUE]]

\* d: the working directory on disk; resume: self._resume and args.resume
_create_workdir(d, resume) ==
    IF d.exists
    THEN IF resume
         THEN [err |-> "none", disk |-> d]
         ELSE [err |-> "UserError:workdir-exists", disk |-> d]
    ELSE [err |-> "none", disk |-> [d EXCEPT !.exists = TRUE]]

\* the test of line 67 without `and args.no_clean`
KeepWorkdir_FlagEnabled(no_clean, a) == no_clean

\* the test of line 67: TRUE keeps the working directory
KeepWorkdir(no_clean, a) == NoCleanRequested(no_clean, a)

-----------------------------------------------------------------------------
(* The constructor, the caller's parse_args, and run() step by step *)

Init ==
    /\ pc = "constructed"
    /\ _name \in Names
    /\ _desc = Desc
    /\ _config \in Templates
    /\ _no_clean \in BOOLEAN
    /\ _resume \in BOOLEAN
    /\ ctor = [name |-> _name, desc |-> _desc, config |-> _config,
               add_no_clean |-> _no_clean, add_resume |-> _resume]
    /\ _mount = Unset
    /\ _workdir = Unset
    /\ args = <<>>
    /\ pipeline_command = <<>>
    /\ command = <<>>
    /\ disk \in DiskStates
    /\ disk0 = disk
    /\ rootOwned = FALSE
    /\ events = <<>>
    /\ stderr = <<>>
    /\ error = "none"
    /\ pending = "none"
    /\ engineExit = "none"
    /\ spawned = <<>>
    /\ mounts = <<>>

\* parser = wrapper.get_args(); args = parser.parse_args(): the caller passes
\* any subset of the flags the parser offers
ParseArgs ==
    /\ pc = "constructed"
    /\ \E passed \in SUBSET get_args(_no_clean, _resume) :
          args' = [k \in get_args(_no_clean, _resume) |-> k \in passed]
    /\ pc' = "parsed"
    /\ UNCHANGED <<_name, _desc, _config, _no_clean, _resume, _mount, _workdir,
                   pipeline_command, command, disk, rootOwned, events, stderr,
                   error, pending, engineExit, spawned, ctor, disk0, mounts>>

\* run(args, pipeline_command), line 42: mount = self._prepare_mount()
RunPrepareMount ==
    /\ pc = "parsed"
    /\ \E cmd \in PipelineCommands, r \in PrepareMountOutcomes :
          /\ pipeline_command' = cmd
          /\ events' = events \o
                (IF r.err = "RuntimeError:no-container"
                 THEN <<"docker ps">> ELSE <<"docker ps", "docker inspect">>)
          /\ IF r.err = "none"
             THEN /\ _mount' = r.mount
                  /\ pc' = "prepare_config"
                  /\ error' = error
             ELSE /\ _mount' = _mount
                  /\ pc' = "raised"
                  /\ error' = r.err
    /\ UNCHANGED <<_name, _desc, _config, _no_clean, _resume, _workdir, args,
                   command, disk, rootOwned, stderr, pending, engineExit, spawned, ctor,
                   disk0, mounts>>

\* lines 43-53: workdir, config text, command line
RunPrepareConfig ==
    /\ pc = "prepare_config"
    /\ LET workdir == Join(_mount, <<"Toil-", _name>>)
           args_dict == [k \in DOMAIN args \cup {"output_dir"} |->
                            IF k = "output_dir" THEN _mount ELSE args[k]]
       IN  /\ _workdir' = workdir
           /\ args' = args_dict
           /\ _config' = Dedent(Format(_config, args_dict))
           /\ command' = BuildCommand(_name, workdir, pipeline_command,
                                      ResumeRequested(_resume, args_dict))
    /\ pc' = "create_workdir"
    /\ UNCHANGED <<_name, _desc, _no_clean, _resume, _mount, pipeline_command,
                   disk, rootOwned, events, stderr, error, pending, engineExit, spawned,
                   ctor, disk0, mounts>>

\* self._create_workdir(args) called inside the try block: its error goes
\* through the finally block
RunCreateWorkdir_InsideTry ==
    /\ pc = "create_workdir"
    /\ LET r == _create_workdir(disk, ResumeRequested(_resume, args))
       IN  /\ disk' = r.disk
           /\ rootOwned' = (rootOwned \/ r.disk # disk)
           /\ IF r.err = "none"
              THEN pc' = "write_config" /\ pending' = pending
              ELSE pc' = "chown" /\ pending' = r.err
    /\ UNCHANGED <<_name, _desc, _config, _no_clean, _resume, _mount, _workdir,
                   args, pipeline_command, command, events, stderr, error,
                   engineExit, spawned, ctor, disk0, mounts>>

\* line 54: self._create_workdir(args)
RunCreateWorkdir ==
    /\ pc = "create_workdir"
    /\ LET r == _create_workdir(disk, ResumeRequested(_resume, args))
       IN  /\ disk' = r.disk
           /\ rootOwned' = (rootOwned \/ r.disk # disk)
           /\ IF r.err = "none"
              THEN pc' = "write_config" /\ error' = error
              ELSE pc' = "raised" /\ error' = r.err
    /\ UNCHANGED <<_name, _desc, _config, _no_clean, _resume, _mount, _workdir,
                   args, pipeline_command, command, events, stderr, pending,
                   engineExit, spawned, ctor, disk0, mounts>>

\* the config file of a reused working directory is kept
RunWriteConfig_KeepOnResume ==
    /\ pc = "write_config"
    /\ disk' = IF disk.hasConfig THEN disk
               ELSE [disk EXCEPT !.hasConfig = TRUE, !.config = _config]
    /\ rootOwned' = TRUE
    /\ pc' = "engine"
    /\ UNCHANGED <<_name, _desc, _config, _no_clean, _resume, _mount, _workdir,
                   args, pipeline_command, command, events, stderr, error,
                   pending, engineExit, spawned, ctor, disk0, mounts>>

\* lines 55-56: the config file is written (truncated if it exists)
RunWriteConfig ==
    /\ pc = "write_config"
    /\ disk' = [disk EXCEPT !.hasConfig = TRUE, !.config = _config]
    /\ rootOwned' = TRUE
    /\ pc' = "engine"
    /\ UNCHANGED <<_name, _desc, _config, _no_clean, _resume, _mount, _workdir,
                   args, pipeline_command, command, events, stderr, error,
                   pending, engineExit, spawned, ctor, disk0, mounts>>

\* try/finally without the except clause: a non-zero exit leaves run
RunEngine_NoExcept ==
    /\ pc = "engine"
    /\ \E exit \in {"zero", "nonzero", "oserror"} :
          /\ engineExit' = exit
          /\ pending' = IF exit = "oserror" THEN "OSError:engine"
                        ELSE IF exit = "nonzero" THEN "CalledProcessError:engine"
                        ELSE pending
    /\ events' = Append(events, "engine")
    /\ spawned' = command
    /\ pc' = "chown"
    /\ UNCHANGED <<_name, _desc, _config, _no_clean, _resume, _mount, _workdir,
                   args, pipeline_command, command, disk, rootOwned, stderr,
                   error, ctor, disk0, mounts>>

\* try/except without the finally clause: the cleanup follows the try statement,
\* so an exception that is not caught skips it
RunEngine_NoFinally ==
    /\ pc = "engine"
    /\ \E exit \in {"zero", "nonzero", "oserror"} :
          /\ engineExit' = exit
          /\ stderr' = IF exit = "nonzero"
                       THEN Append(stderr, "CalledProcessError:engine") ELSE stderr
          /\ IF exit = "oserror"
             THEN pc' = "raised" /\ error' = "OSError:engine"
             ELSE pc' = "chown" /\ error' = error
    /\ events' = Append(events, "engine")
    /\ spawned' = command
    /\ UNCHANGED <<_name, _desc, _config, _no_clean, _resume, _mount, _workdir,
                   args, pipeline_command, command, disk, rootOwned, pending,
                   ctor, disk0, mounts>>

\* lines 58-61: subprocess.check_call(command); a non-zero exit is caught and
\* printed, an OSError (no such executable) stays in flight through finally
RunEngine ==
    /\ pc = "engine"
    /\ \E exit \in {"zero", "nonzero", "oserror"} :
          /\ engineExit' = exit
          /\ stderr' = IF exit = "nonzero"
                       THEN Append(stderr, "CalledProcessError:engine") ELSE stderr
          /\ pending' = IF exit = "oserror" THEN "OSError:engine" ELSE pending
    /\ events' = Append(events, "engine")
    /\ spawned' = command
    /\ pc' = "chown"
    /\ UNCHANGED <<_name, _desc, _config, _no_clean, _resume, _mount, _workdir,
                   args, pipeline_command, command, disk, rootOwned, error, ctor,
                   disk0, mounts>>

\* lines 63-66: chown -R uid:gid of the mount; check_call raises on a non-zero exit
RunChown ==
    /\ pc = "chown"
    /\ events' = Append(events, "chown")
    /\ \E ok \in BOOLEAN :
          IF ok
          THEN /\ rootOwned' = FALSE
               /\ pc' = "cleanup"
               /\ UNCHANGED <<error, pending>>
          ELSE /\ rootOwned' = rootOwned
               /\ pc' = "raised"
               /\ error' = "CalledProcessError:chown"
               /\ pending' = "none"
    /\ UNCHANGED <<_name, _desc, _config, _no_clean, _resume, _mount, _workdir,
                   args, pipeline_command, command, disk, stderr, engineExit, spawned,
                   ctor, disk0, mounts>>

\* lines 67-71: keep or shutil.rmtree the working directory; then run returns,
\* or the exception in flight leaves it
RunCleanup ==
    /\ pc = "cleanup"
    /\ IF KeepWorkdir(_no_clean, args)
       THEN /\ events' = Append(events, "keep")
            /\ disk' = disk
       ELSE /\ events' = Append(events, "rmtree")
            /\ disk' = AbsentDir
    /\ IF pending = "none"
       THEN pc' = "returned" /\ error' = error
       ELSE pc' = "raised" /\ error' = pending
    /\ pending' = "none"
    /\ UNCHANGED <<_name, _desc, _config, _no_clean, _resume, _mount, _workdir,
                   args, pipeline_command, command, rootOwned, stderr,
                   engineExit, spawned, ctor, disk0, mounts>>

Next ==
    \/ ParseArgs
    \/ RunPrepareMount
    \/ RunPrepareConfig
    \/ RunCreateWorkdir
    \/ RunWriteConfig
    \/ RunEngine
    \/ RunChown
    \/ RunCleanup

Spec == Init /\ [][Next]_vars

-----------------------------------------------------------------------------
(* _prepare_mount on its own: every 'Mounts' list of MountLists *)

InitMount ==
    /\ pc = "inspected"
    /\ mounts \in MountLists
    /\ _name = "toil-rnaseq"
    /\ _desc = Desc
    /\ _config = <<Line(0, <<"key: value">>)>>
    /\ _no_clean = TRUE
    /\ _resume = TRUE
    /\ ctor = [name |-> _name, desc |-> _desc, config |-> _config,
               add_no_clean |-> _no_clean, add_resume |-> _resume]
    /\ _mount = Unset
    /\ _workdir = Unset
    /\ args = <<>>
    /\ pipeline_command = <<>>
    /\ command = <<>>
    /\ disk = AbsentDir
    /\ disk0 = disk
    /\ rootOwned = FALSE
    /\ events = <<>>
    /\ stderr = <<>>
    /\ error = "none"
    /\ pending = "none"
    /\ engineExit = "none"
    /\ spawned = <<>>

\* lines 102-122 on the inspected container
PrepareMount ==
    /\ pc = "inspected"
    /\ LET r == _prepare_mount(TRUE, TRUE, mounts)
       IN  /\ _mount' = r.mount
           /\ error' = r.err
           /\ pc' = IF r.err = "none" THEN "mount_returned" ELSE "mount_raised"
    /\ UNCHANGED <<_name, _desc, _config, _no_clean, _resume, _workdir, args,
                   pipeline_command, command, disk, rootOwned, events, stderr,
                   pending, engineExit, spawned, ctor, disk0, mounts>>

NextMount == PrepareMount

SpecMount == InitMount /\ [][NextMount]_vars

-----------------------------------------------------------------------------
(* Vocabulary of the properties *)

\* --resume / --no-clean was given on the command line
ResumePassed == "resume" \in DOMAIN args /\ args["resume"]
NoCleanPassed == "no_clean" \in DOMAIN args /\ args["no_clean"]

Happened(e) == \E i \in 1..Len(events) : events[i] = e

\* run() is over: it returned or an exception left it
RunOver == pc \in {"returned", "raised"}

\* run() got past self._create_workdir(args)
PastCreateWorkdir == _workdir # Unset /\ pc # "create_workdir"

\* the mounts of ms that are mirrored and are not a docker socket
NonSocketMirrored(ms) ==
    {i \in 1..Len(ms) : Mirrored(ms[i]) /\ ~HasDockerSock(ms[i].Source)}
SocketMounts(ms) == {i \in 1..Len(ms) : HasDockerSock(ms[i].Source)}

MountResolved == pc \in {"mount_returned", "mount_raised"}

\* the config file run() is to write: the constructor's template, formatted and dedented
ExpectedConfig == Dedent(Format(ctor.config, [output_dir |-> _mount]))

\* <mount>/Toil-<name> and the fixed part of the engine's command line
ExpectedWorkdir == _mount \o <<"/", "Toil-", ctor.name>>
ExpectedPrefix ==
    << <<ctor.name>>, <<"run">>, ExpectedWorkdir \o <<"/", "jobStore">>,
       <<"--config">>, ExpectedWorkdir \o <<"/", "config">>,
       <<"--workDir">>, ExpectedWorkdir,
       <<"--retryCount">>, <<"1">> >>
RestartFlag == IF ctor.add_resume /\ ResumePassed THEN << <<"--restart">> >> ELSE <<>>

-----------------------------------------------------------------------------
(* C1 *)

\* C1 as stated: with exactly one non-socket mirrored mount _prepare_mount returns
\* its Source; with none or several it raises and returns no path.
C1_ExactlyOneMirroredSuffices ==
    MountResolved =>
        IF Cardinality(NonSocketMirrored(mounts)) = 1
        THEN /\ pc = "mount_returned"
             /\ \E i \in NonSocketMirrored(mounts) : _mount = <<mounts[i].Source>>
        ELSE pc = "mount_raised" /\ _mount = Unset

\* C1 as amended: _prepare_mount returns the Source of the one non-socket mirrored
\* mount exactly when, besides, exactly one mount has docker.sock in its Source and,
\* if there are two mounts in all, both are mirrored; in every other case a
\* require fails and no path is returned.
C1_ResolveMount ==
    MountResolved =>
        IF /\ Cardinality(NonSocketMirrored(mounts)) = 1
           /\ Cardinality(SocketMounts(mounts)) = 1
           /\ (Len(mounts) = 2 => \A i \in 1..2 : Mirrored(mounts[i]))
        THEN /\ pc = "mount_returned"
             /\ error = "none"
             /\ \E i \in NonSocketMirrored(mounts) : _mount = <<mounts[i].Source>>
        ELSE /\ pc = "mount_raised"
             /\ _mount = Unset
             /\ error \in {"require:socket-mount", "require:src-dst", "require:mirror-count"}

\* a container with an unmirrored socket mount, an unmirrored data mount and the
\* mirrored work mount, resolved
C1_Witness ==
    /\ pc = "mount_returned"
    /\ Len(mounts) = 3
    /\ Cardinality(NonSocketMirrored(mounts)) = 1
    /\ \E i \in 1..3 : ~Mirrored(mounts[i]) /\ ~HasDockerSock(mounts[i].Source)

-----------------------------------------------------------------------------
(* C2 *)

\* C2: once run is past _create_workdir: a working directory that existed when
\* run was called is reused untouched if --resume was passed and makes run raise
\* the user error if it was not; a missing one has been created (empty).
C2_CreateOrReuseWorkdir ==
    /\ (PastCreateWorkdir /\ disk0.exists /\ ResumePassed) =>
           /\ error # "UserError:workdir-exists"
           /\ (pc = "write_config" => disk = disk0 /\ error = "none")
    /\ (PastCreateWorkdir /\ disk0.exists /\ ~ResumePassed) =>
           pc = "raised" /\ error = "UserError:workdir-exists"
    /\ (pc = "write_config" /\ ~disk0.exists) =>
           disk = [exists |-> TRUE, hasConfig |-> FALSE, config |-> NoFile]

C2_Witness ==
    pc = "write_config" /\ disk0.exists /\ disk0.hasConfig /\ ResumePassed

-----------------------------------------------------------------------------
(* C3 *)

\* C3: when run has returned, the working directory exists if --no-clean was
\* passed and is gone if it was not, whatever the child's exit status.
C3_NoCleanKeepsWorkdir ==
    pc = "returned" =>
        /\ disk.exists <=> NoCleanPassed
        /\ NoCleanPassed => disk.hasConfig /\ Happened("keep") /\ ~Happened("rmtree")
        /\ ~NoCleanPassed => Happened("rmtree") /\ ~Happened("keep")

C3_Witness ==
    /\ pc = "returned"
    /\ engineExit = "nonzero"
    /\ ctor.add_no_clean /\ ~NoCleanPassed
    /\ ~disk.exists

-----------------------------------------------------------------------------
(* C4 *)

-----------------------------------------------------------------------------
(* C5 *)

\* C5: a run in which mount resolution failed, or in which the working directory
\* existed and resume was not in effect, is over with that error and never
\* started the engine; so the engine only ever starts with a resolved mount and
\* without such a conflict.
C5_AbortBeforeEngine ==
    /\ (error \in MountErrors \cup {"UserError:workdir-exists"}) =>
           pc = "raised" /\ ~Happened("engine") /\ spawned = <<>>
    /\ Happened("engine") =>
           /\ _mount # Unset
           /\ ~(disk0.exists /\ ~ResumePassed)

C5_Witness ==
    /\ pc = "raised"
    /\ error = "UserError:workdir-exists"
    /\ ~Happened("engine")

-----------------------------------------------------------------------------
(* C6 *)

\* C6 as stated: the child's argument vector is the prefix, then --restart if
\* resume is in effect, then the elements of pipeline_command.
C6_RestartBeforePipelineCommand ==
    Happened("engine") =>
        spawned = ExpectedPrefix \o RestartFlag \o pipeline_command

\* C6 as amended: the child's argument vector is <name>, run, <workdir>/jobStore,
\* --config, <workdir>/config, --workDir, <workdir>, --retryCount, 1, then the
\* elements of pipeline_command, then --restart as the last argument exactly
\* when resume is enabled on the wrapper and --resume was passed.
C6_CommandVector ==
    Happened("engine") =>
        spawned = ExpectedPrefix \o pipeline_command \o RestartFlag

C6_Witness ==
    /\ Happened("engine")
    /\ Len(pipeline_command) = 2
    /\ spawned[Len(spawned)] = <<"--restart">>

-----------------------------------------------------------------------------
(* C7 *)

\* C7 as stated: however run ends, it has performed the chown of the mount.
C7_ChownHoweverRunEnds ==
    RunOver => Happened("chown")

\* C7 as amended: every run that gets as far as starting the engine runs the
\* chown of the mount before it finishes, and the keep-or-delete step only ever
\* comes after the chown; a run that aborts before the engine (mount resolution
\* failed, or the working directory exists without resume) performs no chown.
C7_ChownAfterEngine ==
    /\ (RunOver /\ Happened("engine")) => Happened("chown")
    /\ \A i \in 1..Len(events) :
           events[i] \in {"keep", "rmtree"} =>
               \E j \in 1..(i - 1) : events[j] = "chown"
    /\ \A i \in 1..Len(events) :
           events[i] = "chown" => \E j \in 1..(i - 1) : events[j] = "engine"
    /\ (RunOver /\ ~Happened("engine")) => ~Happened("chown")

C7_Witness ==
    /\ pc = "raised"
    /\ error = "OSError:engine"
    /\ Happened("chown") /\ Happened("rmtree")

-----------------------------------------------------------------------------
(* C8 *)

\* C8: the fields set by __init__ always hold what the constructor was given.
C8_FieldsReadOnly ==
    /\ _name = ctor.name
    /\ _desc = ctor.desc
    /\ _config = ctor.config
    /\ _no_clean = ctor.add_no_clean
    /\ _resume = ctor.add_resume

-----------------------------------------------------------------------------
(* C9 *)

\* C9: when run has aborted because the working directory exists and resume is
\* not in effect, the directory and its config file are as they were when run
\* was called, and neither the chown nor the keep-or-delete step has run.
C9_ConflictLeavesWorkdirAlone ==
    (pc = "raised" /\ error = "UserError:workdir-exists") =>
        /\ disk = disk0
        /\ disk.exists
        /\ ~rootOwned
        /\ ~Happened("chown") /\ ~Happened("rmtree") /\ ~Happened("keep")

C9_Witness ==
    /\ pc = "raised"
    /\ error = "UserError:workdir-exists"
    /\ disk.hasConfig /\ disk.config = OldConfig
    /\ ctor.add_no_clean /\ ~NoCleanPassed

-----------------------------------------------------------------------------
(* C10 *)

\* C10: when the engine is about to start or has started, --restart is in its
\* command line exactly when resume is enabled and --resume was passed, also
\* when the working directory did not exist and was freshly created; and when
\* the engine is about to start, the config file holds the formatted template,
\* whatever config file a reused directory held.
C10_RestartFollowsFlagOnly ==
    /\ pc = "engine" =>
           /\ disk.exists /\ disk.hasConfig
           /\ disk.config = ExpectedConfig
           /\ (\E i \in 1..Len(command) : command[i] = <<"--restart">>)
                  <=> (ctor.add_resume /\ ResumePassed)
    /\ Happened("engine") =>
           /\ spawned = command
           /\ (\E i \in 1..Len(spawned) : spawned[i] = <<"--restart">>)
                  <=> (ctor.add_resume /\ ResumePassed)

C10_Witness ==
    /\ Happened("engine")
    /\ ResumePassed
    /\ ~disk0.exists
    /\ spawned[Len(spawned)] = <<"--restart">>

====
